---- MODULE Spec2Model ----
(***************************************************************************)
(* Model of the conversation state machine of the digital-twin chat        *)
(* (components/digital-twin-chat.tsx, kept as src/unnamed/part_002).       *)
(*                                                                         *)
(* Text is a sequence of one-character strings so that String.trim() is a  *)
(* real computation.  The React component state (messages, draft,          *)
(* isLoading, error) is the state of the model.  sendPrompt is only called *)
(* from the two event handlers (form onSubmit, chip onClick); React        *)
(* commits the updates queued by a discrete event before the next event is *)
(* dispatched, so every handler step includes that commit and every        *)
(* handler reads the committed state.  sendPrompt is an async function:    *)
(* its part before the first await is one step, its continuation after     *)
(* the awaits (fetch, response.json) is another.                           *)
(* A second client specification adds the unmounting of the component     *)
(* while a request is in flight.                                           *)
(*                                                                         *)
(* The second half models the server-side proxy (app/api/digital-twin/     *)
(* route.ts): the POST handler, one step per stretch of code between two   *)
(* awaits, with the credential lookup, the filtering of the incoming list  *)
(* and the normalisation of the provider's reply as operators.  The client *)
(* specification keeps the proxy's variables fixed and the proxy           *)
(* specifications keep the client's.                                       *)
(* A last specification runs client and proxy together, one submission on *)
(* a conversation already held, from the click to the rendered outcome.    *)
(***************************************************************************)
EXTENDS Integers, Sequences, FiniteSets, TLC

VARIABLES
    messages,        \* useState<ChatMessage[]>            (part_002:29)
    draft,           \* useState("")                       (part_002:35)
    isLoading,       \* useState(false)                    (part_002:36)
    error,           \* useState<string | null>(null)      (part_002:37)
    inflight,        \* fetch calls issued and not yet settled (part_002:59)
    clock,           \* the value Date.now() returns       (part_002:22)
    serverMessages,  \* initial state computed by the server render of the
                     \* same component (hydration, part_000:32-56)
    lastOp,          \* history: how the last call or continuation of sendPrompt ended
    mounted          \* the component instance is mounted  (part_000:337-342)

vars == <<messages, draft, isLoading, error, inflight, clock, serverMessages, lastOp, mounted>>

VARIABLES
    env,             \* process.env.OPENROUTER_API_KEY        (route.ts:66)
    envFile,         \* the file ../.env                      (route.ts:50-52)
    fileReads,       \* calls of readFileSync since the process started (route.ts:51)
    requests,        \* requests the process has still to receive
    cur,             \* the request being handled and the provider's answer to it
    pc,              \* where the POST handler is
    apiKey,          \* const apiKey                          (route.ts:102)
    safeMessages,    \* const safeMessages                    (route.ts:117)
    calls,           \* fetch calls to the provider made for cur (route.ts:133)
    response         \* what the handler returned for cur

pvars == <<env, envFile, fileReads, requests, cur, pc, apiKey, safeMessages, calls, response>>

----------------------------------------------------------------------------
(* Bounds *)

MaxLen == 2        \* longest text typed or received
MaxConv == 3       \* longest conversation explored
MaxClock == 1      \* Date.now() ranges over 0..MaxClock
MaxRand == 1       \* Math.random() suffix ranges over 0..MaxRand

Chars == {" ", "a"}
Whitespace == {" ", "\n"}
Texts == UNION {[1..n -> Chars] : n \in 0..MaxLen}
Rands == 0..MaxRand

----------------------------------------------------------------------------
(* Values *)

NULL == "<null>"
UNDEFINED == "<undefined>"

GREETING == <<"I am AdrianAI">>

starterPrompts ==
    { <<"What are Adrian's strongest architecture skills?">>,
      <<"What are the biggest milestones in his career journey?">>,
      <<"How does Adrian approach modernization on Azure?">>,
      <<"How does Adrian balance board-level strategy with delivery?">> }

RECURSIVE trimStart(_)
trimStart(s) ==
    IF s = <<>> THEN s
    ELSE IF Head(s) \in Whitespace THEN trimStart(Tail(s)) ELSE s

RECURSIVE trimEnd(_)
trimEnd(s) ==
    IF s = <<>> THEN s
    ELSE IF s[Len(s)] \in Whitespace THEN trimEnd(SubSeq(s, 1, Len(s) - 1)) ELSE s

trim_onlyStart(s) == trimStart(s)

trim(s) == trimEnd(trimStart(s))

newMessage(role, content, now, rnd) ==
    [id |-> <<role, now, rnd>>, role |-> role, content |-> content]

----------------------------------------------------------------------------
(* Outbound request and the ways it can settle *)

project_keepsId(msgs) == msgs

project_blankContent(msgs) ==
    [i \in 1..Len(msgs) |-> [role |-> msgs[i].role, content |-> <<>>]]

project_onlyLast(msgs) ==
    [i \in 1..1 |-> [role |-> msgs[Len(msgs)].role, content |-> msgs[Len(msgs)].content]]

\* nextMessages.map((message) => ({ role, content }))
project(msgs) ==
    [i \in 1..Len(msgs) |-> [role |-> msgs[i].role, content |-> msgs[i].content]]

ErrorTexts == {"OpenRouter request failed."}
ThrownTexts == {"Failed to fetch"}

\* data.reply as found in the parsed body: missing, a string, or another type
ReplyValues ==
    {[type |-> "undefined", text |-> <<>>], [type |-> "number", text |-> <<>>]}
        \cup {[type |-> "string", text |-> t] : t \in Texts}

\* how the awaited fetch / response.json() can settle
Outcomes ==
    {[kind |-> "fetchRejects", isError |-> b, message |-> m] :
        b \in BOOLEAN, m \in ThrownTexts}
    \cup {[kind |-> "jsonRejects", ok |-> b, message |-> "Unexpected token"] :
        b \in BOOLEAN}
    \cup {[kind |-> "json", ok |-> b, error |-> e, reply |-> r] :
        b \in BOOLEAN, e \in ErrorTexts \cup {UNDEFINED}, r \in ReplyValues}

replyOf_untrimmed(o) == IF o.reply.type = "string" THEN o.reply.text ELSE <<>>

\* const reply = typeof data.reply === "string" ? data.reply.trim() : ""
replyOf(o) == IF o.reply.type = "string" THEN trim(o.reply.text) ELSE <<>>

succeeds_ignoresOk(o) == o.kind = "json" /\ replyOf(o) # <<>>

\* the try block runs to setMessages without throwing
succeeds(o) == o.kind = "json" /\ ~(~o.ok \/ replyOf(o) = <<>>)

thrown_dropsServerError(o) ==
    IF o.kind = "fetchRejects" THEN [isError |-> o.isError, message |-> o.message]
    ELSE IF o.kind = "jsonRejects" THEN [isError |-> TRUE, message |-> o.message]
    ELSE [isError |-> TRUE, message |-> "Unable to get a response from AdrianAI."]

\* the value caught by catch (sendError) when the try block throws
thrown(o) ==
    IF o.kind = "fetchRejects" THEN [isError |-> o.isError, message |-> o.message]
    ELSE IF o.kind = "jsonRejects" THEN [isError |-> TRUE, message |-> o.message]
    ELSE [isError |-> TRUE,
          message |-> IF o.error # UNDEFINED THEN o.error
                      ELSE "Unable to get a response from AdrianAI."]

\* sendError instanceof Error ? sendError.message : "Unable to connect ..."
catchMessage(e) ==
    IF e.isError THEN e.message
    ELSE "Unable to connect to the digital twin right now."

----------------------------------------------------------------------------
(* State machine *)

NoText == [type |-> "undefined", text |-> <<>>]
NoRequest ==
    [body |-> [kind |-> "none", messages |-> <<>>],
     provider |-> [kind |-> "none",
                   data |-> [ok |-> FALSE, error |-> UNDEFINED, choices |-> <<>>]]]
NoResponse == [kind |-> "none", status |-> 0, error |-> UNDEFINED, reply |-> <<>>]

\* the proxy before any request, with nothing to receive
ProxyQuiet ==
    /\ env = NoText
    /\ envFile = [exists |-> FALSE, lines |-> <<>>]
    /\ fileReads = 0
    /\ requests = <<>>
    /\ cur = NoRequest
    /\ pc = "idle"
    /\ apiKey = NoText
    /\ safeMessages = <<>>
    /\ calls = <<>>
    /\ response = NoResponse

Init ==
    /\ clock = 0
    /\ \E r \in Rands : messages = <<newMessage("assistant", GREETING, clock, r)>>
    /\ \E r \in Rands : serverMessages = <<newMessage("assistant", GREETING, clock, r)>>
    /\ draft = <<>>
    /\ isLoading = FALSE
    /\ error = NULL
    /\ inflight = <<>>
    /\ lastOp = "init"
    /\ mounted = TRUE
    /\ ProxyQuiet

returnsEarly_never(prompt, loading) == FALSE

returnsEarly_ignoresLoading(prompt, loading) == prompt = <<>>

returnsEarly_andInsteadOfOr(prompt, loading) == prompt = <<>> /\ loading

returnsEarly_ignoresEmpty(prompt, loading) == loading

\* if (!prompt || isLoading) return;
returnsEarly(prompt, loading) == prompt = <<>> \/ loading

append_prepends(list, message) == <<message>> \o list

append_replacesLast(list, message) ==
    IF list = <<>> THEN <<message>>
    ELSE SubSeq(list, 1, Len(list) - 1) \o <<message>>

append_twice(list, message) == list \o <<message, message>>

append_beforeLast(list, message) ==
    IF list = <<>> THEN <<message>>
    ELSE SubSeq(list, 1, Len(list) - 1) \o <<message, list[Len(list)]>>

\* [...messages, userMessage] and [...current, newMessage("assistant", reply)]
append(list, message) == Append(list, message)

errorOnAccept_keeps(previous) == previous

\* setError(null)
errorOnAccept(previous) == NULL

withoutRequest_reissues(list, i) == list

\* the awaited request i is settled and no longer in flight
withoutRequest(list, i) ==
    [j \in 1..(Len(list) - 1) |-> IF j < i THEN list[j] ELSE list[j + 1]]

loadingAfter_exceptOnThrow(o) == ~succeeds(o)

\* finally { setIsLoading(false) }
loadingAfter(o) == FALSE

applies_always(isMounted) == TRUE

\* React 19 drops a state update queued for a component that is not mounted
applies(isMounted) == isMounted

\* sendPrompt up to its first await, in a conversation kept below cap messages
sendPromptWithin(rawPrompt, cap) ==
    LET prompt == trim(rawPrompt) IN
    IF returnsEarly(prompt, isLoading)
    THEN /\ lastOp' = "rejected"
         /\ UNCHANGED <<messages, draft, isLoading, error, inflight, clock, serverMessages, mounted>>
         /\ UNCHANGED pvars
    ELSE /\ Len(messages) < cap
         /\ \E r \in Rands :
              LET userMessage == newMessage("user", prompt, clock, r)
                  nextMessages == append(messages, userMessage)
              IN /\ messages' = nextMessages
                 /\ inflight' = Append(inflight, project(nextMessages))
         /\ draft' = <<>>
         /\ error' = errorOnAccept(error)
         /\ isLoading' = TRUE
         /\ lastOp' = "accepted"
         /\ UNCHANGED <<clock, serverMessages, mounted>>
         /\ UNCHANGED pvars

sendPrompt(rawPrompt) == sendPromptWithin(rawPrompt, MaxConv)

\* onChange={(event) => setDraft(event.target.value)} of the textarea, which
\* is disabled={isLoading}
onChange ==
    \E value \in Texts :
        /\ ~isLoading
        /\ value # draft
        /\ draft' = value
        /\ UNCHANGED <<messages, isLoading, error, inflight, clock, serverMessages, lastOp, mounted>>
        /\ UNCHANGED pvars

\* form onSubmit.  The disabled attributes of the submit button and of the
\* prompt chips repeat the guard of sendPrompt; they are left out, so that
\* sendPrompt is called in every state and its own guard is what is checked.
handleSubmit == sendPrompt(draft)

\* prompt chip onClick
onClick == \E prompt \in starterPrompts : sendPrompt(prompt)

\* sendPrompt from the first await on: request i settles with outcome o.
\* The updates it queues are dropped when the component is no longer mounted.
resume(i, o) ==
    /\ i \in 1..Len(inflight)
    /\ inflight' = withoutRequest(inflight, i)
    /\ IF ~applies(mounted)
       THEN /\ UNCHANGED <<messages, error, isLoading>>
            /\ lastOp' = "discarded"
       ELSE /\ IF succeeds(o)
               THEN /\ \E r \in Rands :
                         messages' = append(messages, newMessage("assistant", replyOf(o), clock, r))
                    /\ error' = error
                    /\ lastOp' = "replied"
               ELSE /\ error' = catchMessage(thrown(o))
                    /\ messages' = messages
                    /\ lastOp' = "failed"
            /\ isLoading' = loadingAfter(o)
    /\ UNCHANGED <<draft, clock, serverMessages, mounted>>
    /\ UNCHANGED pvars

settle == \E i \in 1..Len(inflight), o \in Outcomes : resume(i, o)

\* time passes between two readings of Date.now()
tick ==
    /\ clock < MaxClock
    /\ clock' = clock + 1
    /\ UNCHANGED <<messages, draft, isLoading, error, inflight, serverMessages, lastOp, mounted>>
    /\ UNCHANGED pvars

Next == onChange \/ handleSubmit \/ onClick \/ settle \/ tick

Spec == Init /\ [][Next]_<<vars, pvars>>

\* every request issued settles: the proxy call resolves or the transport fails
SpecLive == Spec /\ WF_<<vars, pvars>>(settle)

\* the view is torn down (the user navigates away)
unmount ==
    /\ mounted
    /\ mounted' = FALSE
    /\ UNCHANGED <<messages, draft, isLoading, error, inflight, clock, serverMessages, lastOp>>
    /\ UNCHANGED pvars

\* a view that is torn down takes no event any more; what it awaits still settles
NextTeardown ==
    \/ mounted /\ onChange
    \/ mounted /\ handleSubmit
    \/ mounted /\ onClick
    \/ settle
    \/ tick
    \/ unmount

SpecTeardown == Init /\ [][NextTeardown]_<<vars, pvars>>

----------------------------------------------------------------------------
(* Proxy: bounds and program constants *)

MaxLines == 2         \* longest ../.env file, in lines
MaxInvocations == 2   \* requests received by one process
MaxShort == 2         \* longest incoming list built from arbitrary entries
MaxBody == 14         \* longest incoming list built from valid/invalid entries
MaxChunks == 3        \* longest chunk sequence in a provider reply

MAX_MESSAGES == 12

OPENROUTER_MODEL == "gpt-oss-120b"

\* DIGITAL_TWIN_SYSTEM_PROMPT.trim()
DIGITAL_TWIN_SYSTEM_PROMPT == <<"You are AdrianAI, a digital twin for Adrian Kolek.">>

Text(t) == [type |-> "string", text |-> t]

----------------------------------------------------------------------------
(* Proxy: credential resolution.  A line of ../.env is a sequence of tokens; *)
(* the token "K" stands for the name OPENROUTER_API_KEY.                     *)

Quotes == {"'", "\""}

\* "OPENROUTER_API_KEY="
KeyPrefix == <<"K", "=">>

startsWith(s, prefix) ==
    Len(s) >= Len(prefix) /\ SubSeq(s, 1, Len(prefix)) = prefix

\* keyLine.slice(keyLine.indexOf("=") + 1)
afterEquals(line) ==
    LET at == CHOOSE i \in 1..Len(line) :
                  line[i] = "=" /\ \A j \in 1..(i - 1) : line[j] # "="
    IN SubSeq(line, at + 1, Len(line))

\* .replace(/^['"]|['"]$/g, "")
stripQuotes(v) ==
    LET front == IF v # <<>> /\ Head(v) \in Quotes THEN Tail(v) ELSE v
    IN IF front # <<>> /\ front[Len(front)] \in Quotes
       THEN SubSeq(front, 1, Len(front) - 1)
       ELSE front

\* null is modelled by NoText
readApiKeyFromParentEnv(file) ==
    IF ~file.exists THEN NoText
    ELSE LET found == {i \in 1..Len(file.lines) : startsWith(trim(file.lines[i]), KeyPrefix)}
         IN IF found = {} THEN NoText
            ELSE LET keyLine == file.lines[CHOOSE i \in found : \A j \in found : i <= j]
                     value == stripQuotes(trim(afterEquals(keyLine)))
                 IN IF value = <<>> THEN NoText ELSE Text(value)

\* process.env.OPENROUTER_API_KEY?.trim()
envKey(e) == IF e.type = "string" THEN Text(trim(e.text)) ELSE NoText

\* a value is truthy when it is a non-empty string
truthy(v) == v.type = "string" /\ v.text # <<>>

\* a || b evaluates b only when a is falsy
getApiKey(e, file) == IF truthy(envKey(e)) THEN envKey(e) ELSE readApiKeyFromParentEnv(file)

\* the calls of readFileSync one call of getApiKey makes
readsOf(e) == IF truthy(envKey(e)) THEN 0 ELSE 1

----------------------------------------------------------------------------
(* Proxy: filtering of the incoming list *)

\* message.role on an entry that is null throws a TypeError
throwsOnRead(entry) == entry.shape = "null"

keeps_anyRole(entry) ==
    /\ entry.shape = "object"
    /\ entry.content.type = "string"
    /\ Len(trim(entry.content.text)) > 0

\* the predicate of .filter(): a primitive entry has no role
keeps(entry) ==
    /\ entry.shape = "object"
    /\ (entry.role = "user" \/ entry.role = "assistant")
    /\ entry.content.type = "string"
    /\ Len(trim(entry.content.text)) > 0

RECURSIVE filter(_)
filter(list) ==
    IF list = <<>> THEN <<>>
    ELSE IF keeps(Head(list)) THEN <<Head(list)>> \o filter(Tail(list))
    ELSE filter(Tail(list))

sliceLast_allButNewest(list, n) ==
    IF Len(list) <= n THEN list ELSE SubSeq(list, Len(list) - n, Len(list) - 1)

sliceLast_takesFirst(list, n) == SubSeq(list, 1, IF Len(list) < n THEN Len(list) ELSE n)

\* .slice(-n)
sliceLast(list, n) ==
    IF Len(list) <= n THEN list ELSE SubSeq(list, Len(list) - n + 1, Len(list))

\* Array.isArray(payload.messages) ? payload.messages.filter(...).slice(-MAX_MESSAGES) : []
sanitize(body) ==
    IF body.kind = "list" THEN sliceLast(filter(body.messages), MAX_MESSAGES) ELSE <<>>

\* reading payload.messages of null, or a field of a null entry, throws
sanitizeThrows(body) ==
    \/ body.kind = "null"
    \/ body.kind = "list" /\ \E i \in 1..Len(body.messages) : throwsOnRead(body.messages[i])

----------------------------------------------------------------------------
(* Proxy: normalisation of the provider's reply *)

chunkText_ignoresTag(chunk) ==
    IF chunk.shape = "string" THEN chunk.text.text
    ELSE IF chunk.shape = "object" /\ chunk.hasText
         THEN (IF chunk.text.type = "string" THEN chunk.text.text ELSE <<>>)
         ELSE <<>>

\* what one chunk maps to in content.map(...)
chunkText(chunk) ==
    IF chunk.shape = "string" THEN chunk.text.text
    ELSE IF /\ chunk.shape = "object"
            /\ chunk.tag # UNDEFINED
            /\ chunk.hasText
            /\ chunk.tag = "text"
         THEN (IF chunk.text.type = "string" THEN chunk.text.text ELSE <<>>)
         ELSE <<>>

RECURSIVE mapFilter(_)
\* .map(...).filter(Boolean)
mapFilter(chunks) ==
    IF chunks = <<>> THEN <<>>
    ELSE IF chunkText(Head(chunks)) # <<>>
         THEN <<chunkText(Head(chunks))>> \o mapFilter(Tail(chunks))
         ELSE mapFilter(Tail(chunks))

RECURSIVE join(_)
\* .join("\n")
join(parts) ==
    IF parts = <<>> THEN <<>>
    ELSE IF Len(parts) = 1 THEN parts[1]
    ELSE parts[1] \o <<"\n">> \o join(Tail(parts))

extractAssistantText(content) ==
    IF content.type = "string" THEN trim(content.text)
    ELSE IF content.type = "array" THEN trim(join(mapFilter(content.chunks)))
    ELSE <<>>

\* data.choices?.[0]?.message?.content
firstContent_lastChoice(data) ==
    IF data.choices = <<>> THEN [type |-> "undefined", text |-> <<>>, chunks |-> <<>>]
    ELSE data.choices[Len(data.choices)]

\* data.choices?.[0]?.message?.content, a choice being written as the content
\* of its message (undefined when it has no message or the message no content)
firstContent(data) ==
    IF data.choices = <<>> THEN [type |-> "undefined", text |-> <<>>, chunks |-> <<>>]
    ELSE data.choices[1]

providerError_alwaysGeneric(data) == "OpenRouter request failed."

\* data.error?.message || "OpenRouter request failed."
providerError(data) ==
    IF data.error # UNDEFINED /\ data.error # "" THEN data.error
    ELSE "OpenRouter request failed."

----------------------------------------------------------------------------
(* Proxy: what a process can be given *)

EnvValues == {NoText} \cup {Text(t) : t \in {<<>>, <<" ">>, <<"v">>, <<" ", "v">>}}

\* K=v   ' K='v' '   'K= '   K=''   xK=v   K=v=v
LineShapes ==
    { <<"K", "=", "v">>,
      <<" ", "K", "=", "'", "v", "'", " ">>,
      <<"K", "=", " ">>,
      <<"K", "=", "'", "'">>,
      <<"x", "K", "=", "v">>,
      <<"K", "=", "v", "=", "v">> }

EnvFiles ==
    {[exists |-> FALSE, lines |-> <<>>]}
        \cup {[exists |-> TRUE, lines |-> l] :
                 l \in UNION {[1..n -> LineShapes] : n \in 0..MaxLines}}

Contents == {NoText, [type |-> "number", text |-> <<>>]} \cup {Text(t) : t \in Texts}

\* an entry of payload.messages: null, a primitive, or an object
EntryShapes ==
    {[shape |-> sh, role |-> UNDEFINED, content |-> NoText] : sh \in {"null", "primitive"}}
        \cup {[shape |-> "object", role |-> r, content |-> c] :
                 r \in {"user", "assistant", "system", UNDEFINED}, c \in Contents}

\* the valid entry and the invalid entry used at place i of a long list
GoodAt(i) ==
    [shape |-> "object",
     role |-> IF i % 2 = 1 THEN "user" ELSE "assistant",
     content |-> Text(IF i % 3 = 0 THEN <<"a">>
                      ELSE IF i % 3 = 1 THEN <<" ", "a">> ELSE <<"a", "a">>)]

BadAt(i) ==
    IF i % 6 = 0 THEN [shape |-> "object", role |-> "system", content |-> Text(<<"a">>)]
    ELSE IF i % 6 = 1 THEN [shape |-> "object", role |-> "user", content |-> Text(<<" ">>)]
    ELSE IF i % 6 = 2 THEN [shape |-> "object", role |-> "user",
                            content |-> [type |-> "number", text |-> <<>>]]
    ELSE IF i % 6 = 3 THEN [shape |-> "object", role |-> UNDEFINED, content |-> Text(<<"a">>)]
    ELSE IF i % 6 = 4 THEN [shape |-> "primitive", role |-> UNDEFINED, content |-> NoText]
    ELSE [shape |-> "null", role |-> UNDEFINED, content |-> NoText]

ShortLists == UNION {[1..n -> EntryShapes] : n \in 0..MaxShort}

\* the list of n entries whose valid entries are at the places in good
LongList(n, good) == [i \in 1..n |-> IF i \in good THEN GoodAt(i) ELSE BadAt(i)]

\* the request body: not JSON, the JSON value null, JSON without a messages
\* field, JSON whose messages field is no array, or JSON with a messages array
Bodies ==
    {[kind |-> k, messages |-> <<>>] : k \in {"unparsable", "null", "noMessages", "notArray"}}
        \cup {[kind |-> "list", messages |-> l] : l \in ShortLists}

ValidBody == [kind |-> "list", messages |-> <<GoodAt(1)>>]

\* a chunk of an array content
ChunkShapes ==
    {[shape |-> "string", tag |-> UNDEFINED, hasText |-> FALSE, text |-> Text(t)] : t \in Texts}
        \cup {[shape |-> "object", tag |-> "text", hasText |-> TRUE, text |-> Text(t)] :
                 t \in Texts}
        \cup {[shape |-> "object", tag |-> "text", hasText |-> TRUE, text |-> NoText],
              [shape |-> "object", tag |-> "text", hasText |-> FALSE, text |-> NoText],
              [shape |-> "object", tag |-> "image", hasText |-> TRUE, text |-> Text(<<"a">>)],
              [shape |-> "object", tag |-> "image", hasText |-> FALSE, text |-> NoText],
              [shape |-> "object", tag |-> UNDEFINED, hasText |-> TRUE, text |-> Text(<<"a">>)],
              [shape |-> "null", tag |-> UNDEFINED, hasText |-> FALSE, text |-> NoText]}

\* message.content of a choice: missing, a string, an array of chunks, other
ProviderContents ==
    {[type |-> ty, text |-> <<>>, chunks |-> <<>>] : ty \in {"undefined", "number"}}
        \cup {[type |-> "string", text |-> t, chunks |-> <<>>] : t \in Texts}
        \cup {[type |-> "array", text |-> <<>>, chunks |-> c] :
                 c \in UNION {[1..n -> ChunkShapes] : n \in 0..MaxChunks}}

\* answers of two choices: a first choice without content, of another type,
\* blank or plain, followed by a choice that carries a text
TwoChoices ==
    {<<c, [type |-> "string", text |-> <<"a", "a">>, chunks |-> <<>>]>> :
        c \in {[type |-> ty, text |-> <<>>, chunks |-> <<>>] : ty \in {"undefined", "number"}}
                 \cup {[type |-> "string", text |-> t, chunks |-> <<>>] : t \in {<<" ">>, <<"a">>}}}

ProviderErrors == {UNDEFINED, "", "Key limit exceeded"}

NoData == [ok |-> FALSE, error |-> UNDEFINED, choices |-> <<>>]

\* how the provider answers: fetch rejects, response.json() rejects, the body
\* is the JSON value null, or the body is an object
Providers ==
    {[kind |-> "fetchRejects", data |-> NoData]}
        \cup {[kind |-> k, data |-> [NoData EXCEPT !.ok = b]] :
                 k \in {"jsonRejects", "null"}, b \in BOOLEAN}
        \cup {[kind |-> "json", data |-> [ok |-> b, error |-> e, choices |-> ch]] :
                 b \in BOOLEAN, e \in ProviderErrors,
                 ch \in {<<>>} \cup {<<c>> : c \in ProviderContents} \cup TwoChoices}

OkProvider ==
    [kind |-> "json",
     data |-> [ok |-> TRUE, error |-> UNDEFINED,
               choices |-> <<[type |-> "string", text |-> <<"a">>, chunks |-> <<>>]>>]]

----------------------------------------------------------------------------
(* Proxy: the POST handler *)

Payload(st, err, rep) == [kind |-> "payload", status |-> st, error |-> err, reply |-> rep]

\* the handler threw: the framework answers 500 without a payload of the handler
Unhandled == [kind |-> "unhandled", status |-> 500, error |-> UNDEFINED, reply |-> <<>>]

isMissing_never(key) == FALSE

\* if (!apiKey)
isMissing(key) == ~truthy(key)

bodyRejects_never(body) == FALSE

\* await request.json() rejects
bodyRejects(body) == body.kind = "unparsable"

isEmptyReply_never(reply) == FALSE

\* if (!reply)
isEmptyReply(reply) == reply = <<>>

throwsInTry_notOnBadBody(provider) == provider.kind \in {"fetchRejects", "null"}

throwsInTry_notOnFetch(provider) == provider.kind \in {"jsonRejects", "null"}

\* the try block throws: fetch rejects, response.json() rejects, or data is
\* null and reading data.error or data.choices throws
throwsInTry(provider) == provider.kind # "json"

providerMessages_systemLast(safe) ==
    [i \in 1..Len(safe) |-> [role |-> safe[i].role, content |-> safe[i].content]]
        \o <<[role |-> "system", content |-> Text(DIGITAL_TWIN_SYSTEM_PROMPT)]>>

\* messages: [{ role: "system", content: ... }, ...safeMessages]
providerMessages(safe) ==
    <<[role |-> "system", content |-> Text(DIGITAL_TWIN_SYSTEM_PROMPT)]>>
        \o [i \in 1..Len(safe) |-> [role |-> safe[i].role, content |-> safe[i].content]]

afterCredential_fallsThrough(missing) == "parsing"

\* the return inside if (!apiKey) ends the invocation
afterCredential(missing) == IF missing THEN "done" ELSE "parsing"

\* POST from its start to await request.json()
POST ==
    /\ pc \in {"idle", "done"}
    /\ requests # <<>>
    /\ cur' = Head(requests)
    /\ requests' = Tail(requests)
    /\ apiKey' = getApiKey(env, envFile)
    /\ fileReads' = fileReads + readsOf(env)
    /\ safeMessages' = <<>>
    /\ calls' = <<>>
    /\ response' =
          IF isMissing(apiKey')
          THEN Payload(500, "OPENROUTER_API_KEY is missing. Add it to web/.env.local or ../.env.", <<>>)
          ELSE NoResponse
    /\ pc' = afterCredential(isMissing(apiKey'))
    /\ UNCHANGED <<env, envFile>>
    /\ UNCHANGED vars

\* POST from the settling of request.json() to await fetch(OPENROUTER_URL)
POST_parsed ==
    /\ pc = "parsing"
    /\ IF bodyRejects(cur.body)
       THEN /\ response' = Payload(400, "Invalid JSON body.", <<>>)
            /\ pc' = "done"
            /\ UNCHANGED <<safeMessages, calls>>
       ELSE IF sanitizeThrows(cur.body)
       THEN /\ response' = Unhandled
            /\ pc' = "done"
            /\ UNCHANGED <<safeMessages, calls>>
       ELSE /\ safeMessages' = sanitize(cur.body)
            /\ IF Len(safeMessages') = 0
               THEN /\ response' = Payload(400, "Provide at least one valid message.", <<>>)
                    /\ pc' = "done"
                    /\ calls' = calls
               ELSE /\ calls' = Append(calls,
                          [authorization |-> apiKey.text,
                           model |-> OPENROUTER_MODEL,
                           messages |-> providerMessages(safeMessages')])
                    /\ response' = response
                    /\ pc' = "calling"
    /\ UNCHANGED <<env, envFile, fileReads, requests, cur, apiKey>>
    /\ UNCHANGED vars

\* POST from the settling of fetch and response.json() to its return
POST_fetched ==
    /\ pc = "calling"
    /\ LET data == cur.provider.data
           reply == extractAssistantText(firstContent(data))
       IN response' =
            IF throwsInTry(cur.provider)
            THEN Payload(502, "Unable to reach OpenRouter. Please try again.", <<>>)
            ELSE IF ~data.ok THEN Payload(502, providerError(data), <<>>)
            ELSE IF isEmptyReply(reply)
            THEN Payload(502, "Model returned an empty response.", <<>>)
            ELSE Payload(200, UNDEFINED, reply)
    /\ pc' = "done"
    /\ UNCHANGED <<env, envFile, fileReads, requests, cur, apiKey, safeMessages, calls>>
    /\ UNCHANGED vars

PNext == POST \/ POST_parsed \/ POST_fetched

\* the client before anything happens
ClientQuiet ==
    /\ clock = 0
    /\ messages = <<newMessage("assistant", GREETING, 0, 0)>>
    /\ serverMessages = messages
    /\ draft = <<>>
    /\ isLoading = FALSE
    /\ error = NULL
    /\ inflight = <<>>
    /\ lastOp = "init"
    /\ mounted = TRUE

\* a process with environment e and fallback file f that will receive the
\* requests rs in this order
ProxyInit(e, f, rs) ==
    /\ ClientQuiet
    /\ env = e
    /\ envFile = f
    /\ fileReads = 0
    /\ requests = rs
    /\ cur = NoRequest
    /\ pc = "idle"
    /\ apiKey = NoText
    /\ safeMessages = <<>>
    /\ calls = <<>>
    /\ response = NoResponse

allvars == <<vars, pvars>>

KeyRequests ==
    {[body |-> b, provider |-> p] :
        b \in {ValidBody, [kind |-> "unparsable", messages |-> <<>>],
                [kind |-> "noMessages", messages |-> <<>>]},
        p \in {OkProvider, [kind |-> "fetchRejects", data |-> NoData],
                [kind |-> "json", data |-> NoData]}}

\* every configuration, a few requests
InitKey ==
    \E e \in EnvValues, f \in EnvFiles :
        \E rs \in UNION {[1..k -> KeyRequests] : k \in 1..MaxInvocations} :
            ProxyInit(e, f, rs)

SpecKey == InitKey /\ [][PNext]_allvars

NoFile == [exists |-> FALSE, lines |-> <<>>]

\* a configured process, every request body
InitSanitize ==
    \/ \E b \in Bodies :
           ProxyInit(Text(<<"v">>), NoFile, <<[body |-> b, provider |-> OkProvider]>>)
    \/ \E n \in 0..MaxBody :
           \E good \in SUBSET (1..n) :
               ProxyInit(Text(<<"v">>), NoFile,
                         <<[body |-> [kind |-> "list", messages |-> LongList(n, good)],
                            provider |-> OkProvider]>>)

SpecSanitize == InitSanitize /\ [][PNext]_allvars

\* a configured process, a valid request, every behaviour of the provider
InitReply ==
    \E p \in Providers :
        ProxyInit(Text(<<"v">>), NoFile, <<[body |-> ValidBody, provider |-> p]>>)

SpecReply == InitReply /\ [][PNext]_allvars

----------------------------------------------------------------------------
(* Client and proxy together: the request the client issues is the body the *)
(* proxy receives, and the proxy's response is what the client's fetch       *)
(* settles with.                                                              *)

\* body: JSON.stringify({ messages: ... }) on the client, read back by
\* request.json() on the proxy: an object whose messages field is an array of
\* objects with a role and a string content
toBody(request) ==
    [kind |-> "list",
     messages |-> [i \in 1..Len(request) |->
                      [shape |-> "object",
                       role |-> request[i].role,
                       content |-> Text(request[i].content)]]]

\* what the client's fetch and response.json() settle with when the proxy
\* has returned res: NextResponse.json(...) parses to an object; an exception
\* that escaped the handler is answered by the framework without a JSON body
outcomeOf(res) ==
    IF res.kind = "payload"
    THEN [kind |-> "json",
          ok |-> res.status = 200,
          error |-> res.error,
          reply |-> IF res.status = 200 THEN Text(res.reply) ELSE NoText]
    ELSE [kind |-> "jsonRejects", ok |-> FALSE, message |-> "Unexpected token"]

\* the k-th message of a conversation already held: the greeting, then
\* either prompts that were all answered or prompts that all failed
PastMessage(k, answered) ==
    IF k = 1 THEN newMessage("assistant", GREETING, 0, 0)
    ELSE IF answered /\ k % 2 = 1 THEN newMessage("assistant", <<"a">>, 0, 0)
    ELSE newMessage("user", IF k % 3 = 0 THEN <<"a">> ELSE <<"a", "a">>, 0, 0)

History(m, answered) == [k \in 1..m |-> PastMessage(k, answered)]

\* the prompts submitted and the ways the provider behaves in the joint runs
JointPrompts == {<<" ", "a", " ", "a">>, <<"How does Adrian approach modernization on Azure?">>, <<" ">>}
JointProviders ==
    {OkProvider, [kind |-> "fetchRejects", data |-> NoData], [kind |-> "json", data |-> NoData]}

\* a mounted client at rest on a conversation of m messages, and a proxy
\* process that has received nothing yet
InitJoint ==
    \E m \in 1..(MaxBody - 1), answered \in BOOLEAN, e \in {Text(<<"v">>), NoText} :
        LET failed == m > 1 /\ PastMessage(m, answered).role = "user" IN
        /\ clock = 0
        /\ messages = History(m, answered)
        /\ serverMessages = <<newMessage("assistant", GREETING, 0, 0)>>
        /\ draft = <<>>
        /\ isLoading = FALSE
        /\ error = IF failed THEN "Failed to fetch" ELSE NULL
        /\ inflight = <<>>
        /\ lastOp = IF m = 1 THEN "init" ELSE IF failed THEN "failed" ELSE "replied"
        /\ mounted = TRUE
        /\ env = e
        /\ envFile = NoFile
        /\ fileReads = 0
        /\ requests = <<>>
        /\ cur = NoRequest
        /\ pc = "idle"
        /\ apiKey = NoText
        /\ safeMessages = <<>>
        /\ calls = <<>>
        /\ response = NoResponse

\* form onSubmit or prompt chip onClick, on the conversation held at the
\* start: a run follows one submission to its end
submit ==
    /\ \E answered \in BOOLEAN : messages = History(Len(messages), answered)
    /\ \E raw \in JointPrompts : sendPromptWithin(raw, MaxBody)

\* the request issued by fetch("/api/digital-twin", ...) reaches the proxy;
\* p is how the provider will behave during this invocation
transmit ==
    /\ inflight # <<>>
    /\ requests = <<>>
    /\ pc \in {"idle", "done"}
    /\ cur.body # toBody(inflight[1])
    /\ \E p \in JointProviders :
          requests' = <<[body |-> toBody(inflight[1]), provider |-> p]>>
    /\ UNCHANGED <<env, envFile, fileReads, cur, pc, apiKey, safeMessages, calls, response>>
    /\ UNCHANGED vars

\* the proxy's response reaches the client: await fetch and await
\* response.json() settle and sendPrompt resumes
deliver ==
    /\ inflight # <<>>
    /\ requests = <<>>
    /\ pc = "done"
    /\ cur.body = toBody(inflight[1])
    /\ resume(1, outcomeOf(response))

NextJoint == submit \/ transmit \/ POST \/ POST_parsed \/ POST_fetched \/ deliver

SpecJoint == InitJoint /\ [][NextJoint]_allvars

----------------------------------------------------------------------------
(* Vocabulary of the properties *)

\* UI status: one of idle, sending, error(message)
status == IF isLoading THEN "sending" ELSE IF error # NULL THEN "error" ELSE "idle"

Blank(s) == \A k \in 1..Len(s) : s[k] \in Whitespace

\* c is raw without its leading and trailing whitespace
IsTrimOf(c, raw) ==
    /\ c = <<>> \/ (c[1] \notin Whitespace /\ c[Len(c)] \notin Whitespace)
    /\ \E i \in 1..(Len(raw) + 1), j \in 0..Len(raw) :
          /\ c = SubSeq(raw, i, j)
          /\ \A k \in 1..Len(raw) : (k < i \/ k > j) => raw[k] \in Whitespace

\* new is old with exactly one message added at the end
GainsOne(new, old) ==
    /\ Len(new) = Len(old) + 1
    /\ \A k \in 1..Len(old) : new[k] = old[k]

NoObservableEffect == UNCHANGED <<messages, isLoading, error, inflight>>

\* the step taken is a call of sendPrompt with this raw text
Submits(raw) ==
    \/ draft = raw /\ handleSubmit
    \/ raw \in starterPrompts /\ sendPrompt(raw)

RawPrompts == Texts \cup starterPrompts

\* a response with success status and a reply that is not blank
GoodReply(o) ==
    /\ o.kind = "json"
    /\ o.ok
    /\ o.reply.type = "string"
    /\ ~Blank(o.reply.text)

----------------------------------------------------------------------------
(* Properties *)

\* C1: at most one outbound proxy request is in flight at any time.
C1_AtMostOneInFlight == Len(inflight) <= 1

\* a second call was attempted while the first request was unresolved
C1_Witness == Len(inflight) = 1 /\ lastOp = "rejected" /\ Len(messages) = 2

\* C2: a submit issued while the status is sending changes neither the
\* conversation nor the status nor the error and issues no request.
C2_SubmitWhileSendingNoEffect ==
    [][\A raw \in RawPrompts :
          (status = "sending" /\ Submits(raw)) => NoObservableEffect]_vars

C2_Witness == status = "sending" /\ lastOp = "rejected" /\ Len(messages) = 3

\* C3: a submit whose text is empty after trimming is a no-op in every state.
C3_BlankSubmitNoEffect ==
    [][\A raw \in RawPrompts : (Blank(raw) /\ Submits(raw)) => NoObservableEffect]_vars

C3_Witness == lastOp = "rejected" /\ status = "error" /\ Blank(draft) /\ draft # <<>>

\* C4: an accepted submit appends exactly one user message carrying the
\* trimmed text at the end, clears the error and sets the status to sending.
C4_AcceptedSubmit ==
    [][\A raw \in RawPrompts :
          (~Blank(raw) /\ status # "sending" /\ Submits(raw)) =>
             /\ GainsOne(messages', messages)
             /\ messages'[Len(messages')].role = "user"
             /\ IsTrimOf(messages'[Len(messages')].content, raw)
             /\ error' = NULL
             /\ isLoading' = TRUE]_vars

\* a submit accepted after an earlier one had failed
C4_Witness ==
    /\ lastOp = "accepted" /\ status = "sending" /\ Len(messages) = 3
    /\ messages[2].role = "user" /\ messages[3].role = "user"

\* C5: the request in flight carries the whole conversation, in order, from
\* the greeting to the new user message, each entry reduced to role and content.
C5_RequestCarriesConversation ==
    \A i \in 1..Len(inflight) :
        /\ Len(inflight[i]) = Len(messages)
        /\ \A k \in 1..Len(messages) :
              /\ DOMAIN inflight[i][k] = {"role", "content"}
              /\ inflight[i][k].role = messages[k].role
              /\ inflight[i][k].content = messages[k].content
        /\ inflight[i][1].content = GREETING
        /\ inflight[i][Len(inflight[i])].role = "user"

C5_Witness ==
    /\ Len(inflight) = 1 /\ Len(inflight[1]) = 3
    /\ inflight[1][2].role = "user" /\ inflight[1][3].role = "user"
    /\ clock = MaxClock

\* C6: an assistant message is appended exactly when a response arrives with
\* success status and a non-blank reply; then exactly one assistant message
\* with the (trimmed) reply is added at the end and the status becomes idle.
C6_AssistantAppendedIffGoodReply ==
    [][/\ \A i \in 1..Len(inflight), o \in Outcomes :
             (Len(inflight') < Len(inflight) /\ resume(i, o)) =>
                IF GoodReply(o)
                THEN /\ GainsOne(messages', messages)
                     /\ messages'[Len(messages')].role = "assistant"
                     /\ IsTrimOf(messages'[Len(messages')].content, o.reply.text)
                     /\ isLoading' = FALSE
                     /\ error' = NULL
                ELSE messages' = messages
       /\ (messages' # messages /\ messages'[Len(messages')].role = "assistant") =>
             \E i \in 1..Len(inflight), o \in Outcomes : GoodReply(o) /\ resume(i, o)]_vars

C6_Witness ==
    /\ lastOp = "replied" /\ status = "idle"
    /\ Len(messages) = 3 /\ messages[3].role = "assistant"

\* C7: a failed submission leaves the conversation as it was after the submit
\* and sets the status to error with the reason.
C7_FailureKeepsConversation ==
    [][\A i \in 1..Len(inflight), o \in Outcomes :
          (~GoodReply(o) /\ Len(inflight') < Len(inflight) /\ resume(i, o)) =>
             /\ messages' = messages
             /\ isLoading' = FALSE
             /\ error' # NULL
             /\ (o.kind = "json" /\ o.error # UNDEFINED) => error' = o.error]_vars

C7_Witness ==
    /\ lastOp = "failed" /\ status = "error"
    /\ messages[Len(messages)].role = "user" /\ error \in ErrorTexts

\* C8: all message identifiers of the conversation are pairwise distinct.
C8_UniqueIds ==
    \A i, j \in 1..Len(messages) : i # j => messages[i].id # messages[j].id

\* C9: two independently initialised instances (the server render and the
\* client) start with the same conversation, identifier included.
C9_ReproducibleGreeting == serverMessages = <<messages[1]>>

\* C10: the first message is always the assistant greeting created at start.
C10_FirstIsGreeting ==
    /\ [](/\ Len(messages) >= 1
          /\ messages[1].role = "assistant"
          /\ messages[1].content = GREETING)
    /\ [][messages'[1] = messages[1]]_vars

C10_Witness == Len(messages) = 3 /\ status = "idle" /\ messages[1].content = GREETING

----------------------------------------------------------------------------
(* Vocabulary of the proxy's properties *)

\* the entry meets the role condition and the content condition
Survives(entry) ==
    /\ entry.role \in {"user", "assistant"}
    /\ entry.content.type = "string"
    /\ ~Blank(entry.content.text)

\* the places of the incoming list whose entries survive filtering
SurvivorPlaces(list) == {i \in 1..Len(list) : Survives(list[i])}

\* the r-th smallest member of a set of places
Nth(places, r) == CHOOSE i \in places : Cardinality({x \in places : x <= i}) = r

Min(a, b) == IF a <= b THEN a ELSE b

RECURSIVE IsSubsequence(_, _)
\* a can be obtained from b by deleting entries
IsSubsequence(a, b) ==
    IF a = <<>> THEN TRUE
    ELSE IF b = <<>> THEN FALSE
    ELSE IF Head(a) = Head(b) THEN IsSubsequence(Tail(a), Tail(b))
    ELSE IsSubsequence(a, Tail(b))

\* the handler has computed the sanitized list of the request at hand
Sanitized ==
    \/ pc = "calling"
    \/ /\ pc = "done"
       /\ response.kind = "payload"
       /\ response.status # 500
       /\ cur.body.kind # "unparsable"

----------------------------------------------------------------------------
(* Properties of the proxy *)

\* C11: no entry whose role is outside {user, assistant} or whose content is
\* empty or whitespace-only appears in the sanitized list, and the surviving
\* entries keep their relative input order.
C11_OnlyValidEntriesInOrder ==
    /\ \A i \in 1..Len(safeMessages) : Survives(safeMessages[i])
    /\ Sanitized => IsSubsequence(safeMessages, cur.body.messages)

C11_Witness ==
    /\ pc = "calling"
    /\ Len(cur.body.messages) = 6
    /\ cur.body.messages[1].role = "user"
    /\ Blank(cur.body.messages[1].content.text)
    /\ cur.body.messages[6].role = "system"
    /\ safeMessages = <<cur.body.messages[2], cur.body.messages[5]>>

\* C12: the sanitized list is the last min(N, k) of the k entries that survive
\* filtering, N = 12: filtering comes before truncation and the oldest
\* survivors are discarded first.
C12_LastNOfSurvivors ==
    Sanitized =>
        LET places == SurvivorPlaces(cur.body.messages)
            k == Cardinality(places)
            m == Min(12, k)
        IN /\ Len(safeMessages) = m
           /\ \A j \in 1..m : safeMessages[j] = cur.body.messages[Nth(places, k - m + j)]

C12_Witness ==
    /\ pc = "calling"
    /\ Len(cur.body.messages) = 14
    /\ Cardinality(SurvivorPlaces(cur.body.messages)) = 13
    /\ ~Survives(cur.body.messages[7])
    /\ Len(safeMessages) = 12
    /\ safeMessages[1] = cur.body.messages[2]

\* the handler is past validation of a request whose body parsed to a value
\* with a list of messages
ValidatedList == pc \in {"calling", "done"} /\ cur.body.kind = "list"

\* C13: every entry that fails the role or content condition, whatever its
\* shape, is dropped: it never makes the request fail, and the request goes on
\* with the remaining entries.
C13_InvalidEntriesNeverFail ==
    ValidatedList =>
        /\ response.kind # "unhandled"
        /\ LET k == Cardinality(SurvivorPlaces(cur.body.messages))
           IN k > 0 => /\ Len(safeMessages) = Min(12, k)
                       /\ Len(calls) = 1

\* C14: every invocation ends with exactly one structured outcome: the success
\* payload, or an error payload classified 400, 500 or 502.
C14_AlwaysStructuredOutcome ==
    pc = "done" =>
        /\ response.kind = "payload"
        /\ \/ response.status = 200 /\ response.error = UNDEFINED /\ response.reply # <<>>
           \/ response.status \in {400, 500, 502} /\ response.error # UNDEFINED

InvalidBody == Payload(400, "Invalid JSON body.", <<>>)

MissingCredential ==
    Payload(500, "OPENROUTER_API_KEY is missing. Add it to web/.env.local or ../.env.", <<>>)

\* the environment value yields a credential
EnvYields == env.type = "string" /\ ~Blank(env.text)

\* the first line of the fallback file that names the key, and its value with
\* surrounding whitespace and one surrounding quote on either side removed
FileYields ==
    /\ envFile.exists
    /\ \E i \in 1..Len(envFile.lines) :
          /\ startsWith(trim(envFile.lines[i]), KeyPrefix)
          /\ \A j \in 1..(i - 1) : ~startsWith(trim(envFile.lines[j]), KeyPrefix)
          /\ stripQuotes(trim(afterEquals(envFile.lines[i]))) # <<>>

\* C15 as stated: a request whose body cannot be parsed yields the 400 invalid
\* body error, validation being the first stage after receipt, and the
\* provider is not called.
C15_UnparsableBodyIs400 ==
    (pc = "done" /\ cur.body.kind = "unparsable") =>
        /\ response = InvalidBody
        /\ calls = <<>>

\* C15 amended: the credential check is the first stage.  When the credential
\* resolves, a request whose body cannot be parsed yields the 400 invalid body
\* error; when it does not, the same request yields the 500 error; in both
\* cases the provider is not called.
C15_UnparsableBodyAfterCredential ==
    (pc = "done" /\ cur.body.kind = "unparsable") =>
        /\ calls = <<>>
        /\ (EnvYields \/ FileYields) => response = InvalidBody
        /\ ~(EnvYields \/ FileYields) => response = MissingCredential

C15_Witness ==
    /\ pc = "done"
    /\ cur.body.kind = "unparsable"
    /\ ~EnvYields /\ FileYields
    /\ response = InvalidBody
    /\ requests # <<>>

\* C16: when no entry survives filtering, a missing or non-list messages field
\* included, the proxy returns the 400 no-valid-messages error and the
\* provider is not called.
C16_NoSurvivorIs400 ==
    (/\ pc = "done"
     /\ cur.body.kind \notin {"unparsable", "none"}
     /\ SurvivorPlaces(cur.body.messages) = {}) =>
        /\ response = Payload(400, "Provide at least one valid message.", <<>>)
        /\ calls = <<>>

\* C17: when neither the environment value nor the fallback file yields a
\* credential, the proxy returns the 500 error and never calls the provider.
C17_NoCredentialIs500 ==
    ~(EnvYields \/ FileYields) =>
        /\ calls = <<>>
        /\ pc \in {"idle", "done"}
        /\ pc = "done" => response = MissingCredential

C17_Witness ==
    /\ pc = "done"
    /\ requests = <<>>
    /\ cur.body = ValidBody
    /\ env = Text(<<" ">>)
    /\ envFile.exists
    /\ Len(envFile.lines) = 2
    /\ envFile.lines[2] = <<"K", "=", "'", "'">>
    /\ ~FileYields
    /\ response = MissingCredential

\* C18: the credential is resolved once and cached: over the whole process
\* lifetime the fallback configuration file is read at most once.
C18_FileReadAtMostOnce == fileReads <= 1

\* the provider answered the request at hand with a success status and a body
\* that parsed to an object, and the handler has returned
Answered == pc = "done" /\ cur.provider.kind = "json" /\ cur.provider.data.ok

EmptyReply == Payload(502, "Model returned an empty response.", <<>>)

\* the normalized reply as the caller observes it: the reply of the success
\* payload, and the empty text when the empty-reply error is returned
Normalized == IF response.status = 200 THEN response.reply ELSE <<>>

\* what a chunk contributes: a chunk that is a string, itself; a chunk tagged
\* "text", its text field; any other chunk, nothing
Contribution(chunk) ==
    IF chunk.shape = "string" \/ (chunk.tag = "text" /\ chunk.text.type = "string")
    THEN chunk.text.text
    ELSE <<>>

RECURSIVE NewlineJoined(_, _, _)
\* the contributions of the chunks at the given places, from the r-th place
\* on, in order, with a newline between two of them
NewlineJoined(chunks, places, r) ==
    IF r > Cardinality(places) THEN <<>>
    ELSE Contribution(chunks[Nth(places, r)])
            \o (IF r < Cardinality(places) THEN <<"\n">> ELSE <<>>)
            \o NewlineJoined(chunks, places, r + 1)

C20_EmptyReplyIs502 ==
    /\ Answered =>
          LET content == firstContent(cur.provider.data)
              contributing == {i \in 1..Len(content.chunks) :
                                  Contribution(content.chunks[i]) # <<>>}
              joined == IF content.type = "string" THEN content.text
                        ELSE NewlineJoined(content.chunks, contributing, 1)
          IN Blank(joined) => response = EmptyReply
    /\ (pc = "done" /\ response.status = 200) =>
          /\ response.kind = "payload"
          /\ response.reply # <<>>
          /\ ~Blank(response.reply)

C20_Witness ==
    /\ Answered
    /\ response = EmptyReply
    /\ Len(cur.provider.data.choices) = 1
    /\ LET chunks == cur.provider.data.choices[1].chunks
       IN /\ Len(chunks) = 2
          /\ chunks[1].tag = "image" /\ chunks[1].text = Text(<<"a">>)
          /\ chunks[2].tag = "text" /\ chunks[2].text = Text(<<" ">>)

\* C21: every request sent to the provider carries exactly one system-role
\* message, the fixed persona instruction, in first position, followed by the
\* sanitized list in order; no entry supplied by the client has the system role.
C21_OneSystemMessageFirst ==
    /\ pc = "calling" => Len(calls) = 1
    /\ \A c \in 1..Len(calls) :
          LET sent == calls[c].messages
          IN /\ Cardinality({i \in 1..Len(sent) : sent[i].role = "system"}) = 1
             /\ sent[1] = [role |-> "system", content |-> Text(DIGITAL_TWIN_SYSTEM_PROMPT)]
             /\ Len(sent) = 1 + Len(safeMessages)
             /\ \A j \in 1..Len(safeMessages) :
                   /\ sent[j + 1].role = safeMessages[j].role
                   /\ sent[j + 1].content = safeMessages[j].content
                   /\ sent[j + 1].role \in {"user", "assistant"}

C21_Witness ==
    /\ pc = "calling"
    /\ Len(cur.body.messages) = 14
    /\ cur.body.messages[6].role = "system"
    /\ cur.body.messages[12].role = "system"
    /\ Len(calls) = 1
    /\ Len(calls[1].messages) = 13
    /\ calls[1].messages[2].role = "user"
    /\ calls[1].messages[2].content = cur.body.messages[1].content
    /\ calls[1].messages[13].content = cur.body.messages[14].content

Unreachable == Payload(502, "Unable to reach OpenRouter. Please try again.", <<>>)

\* C22: when the provider answers with a non-success status, the proxy returns
\* the 502 error carrying the provider's own error text when the provider
\* supplied one, and a generic message otherwise.
C22_ProviderErrorIs502 ==
    (/\ pc = "done"
     /\ cur.provider.kind \in {"json", "jsonRejects", "null"}
     /\ ~cur.provider.data.ok) =>
        /\ response.kind = "payload"
        /\ response.status = 502
        /\ response.reply = <<>>
        /\ IF cur.provider.kind = "json" /\ cur.provider.data.error \notin {UNDEFINED, ""}
           THEN response.error = cur.provider.data.error
           ELSE response.error \in {"OpenRouter request failed.", Unreachable.error}

C22_Witness ==
    /\ pc = "done"
    /\ cur.provider.kind = "json"
    /\ ~cur.provider.data.ok
    /\ cur.provider.data.error = "Key limit exceeded"
    /\ cur.provider.data.choices # <<>>
    /\ response = Payload(502, "Key limit exceeded", <<>>)

\* C23: when the call to the provider fails at the transport level, the proxy
\* returns the 502 unable-to-reach-provider error.
C23_TransportFailureIs502 ==
    (pc = "done" /\ cur.provider.kind = "fetchRejects") => response = Unreachable

C23_Witness ==
    /\ pc = "done"
    /\ cur.provider.kind = "fetchRejects"
    /\ Len(calls) = 1
    /\ response.status = 502
    /\ response.error = "Unable to reach OpenRouter. Please try again."

----------------------------------------------------------------------------
(* Further properties of the client *)

\* the two generic texts of the client
ClientFallbacks ==
    {"Unable to get a response from AdrianAI.",
     "Unable to connect to the digital twin right now."}

\* the error text of the server's payload, when there is one
ServerErrorTexts(o) == IF o.kind = "json" /\ o.error # UNDEFINED THEN {o.error} ELSE {}

\* C24: after any failed submission the error text held by the client is
\* either the error text returned by the server, verbatim, or the client's
\* generic fallback text; this holds for non-success payloads, for responses
\* without a usable reply, and for transport failures.
C24_ErrorTextFromServerOrFallback ==
    [][\A i \in 1..Len(inflight), o \in Outcomes :
          (~GoodReply(o) /\ Len(inflight') < Len(inflight) /\ resume(i, o)) =>
             error' \in ServerErrorTexts(o) \cup ClientFallbacks]_vars

C26_OneCallPerAcceptedSubmit ==
    [][/\ \A raw \in RawPrompts :
             Submits(raw) =>
                IF ~Blank(raw) /\ ~isLoading
                THEN /\ Len(inflight') = Len(inflight) + 1
                     /\ SubSeq(inflight', 1, Len(inflight)) = inflight
                ELSE inflight' = inflight
       /\ \A i \in 1..Len(inflight), o \in Outcomes :
             (lastOp' \in {"failed", "replied"} /\ resume(i, o)) =>
                /\ Len(inflight') = Len(inflight) - 1
                /\ \A k \in 1..Len(inflight') : \E j \in 1..Len(inflight) : inflight'[k] = inflight[j]
       /\ Len(inflight') > Len(inflight) =>
             \E raw \in RawPrompts : ~Blank(raw) /\ ~isLoading /\ Submits(raw)]_vars

\* two accepted submits, both failed, and nothing in flight
C26_Witness ==
    /\ lastOp = "failed"
    /\ inflight = <<>>
    /\ Len(messages) = 3
    /\ messages[2].role = "user"
    /\ messages[3].role = "user"
    /\ ~isLoading

\* C29: in every reachable state the UI status is exactly one of idle,
\* sending or error: the in-flight flag and an error are never set together,
\* and the status changes only inside the send operation (accepted submit,
\* success, failure).
C29_StatusOneOfThree ==
    /\ [](/\ isLoading \in BOOLEAN
          /\ ~(isLoading /\ error # NULL)
          /\ Cardinality({k \in {"idle", "sending", "error"} : status = k}) = 1
          /\ status = "sending" <=> isLoading
          /\ status = "error" <=> error # NULL)
    /\ [][(isLoading' # isLoading \/ error' # error) =>
             \/ \E raw \in RawPrompts : ~Blank(raw) /\ ~isLoading /\ Submits(raw)
             \/ \E i \in 1..Len(inflight), o \in Outcomes : resume(i, o)]_vars

\* a failure, then typing: the status stays error until the next accepted submit
C29_Witness ==
    /\ status = "error"
    /\ lastOp = "failed"
    /\ Len(messages) = 2
    /\ draft = <<"a", " ">>
    /\ clock = 0

\* C30: in every reachable state every message of the conversation has a
\* role in {user, assistant} and a content that is non-empty and has no
\* leading or trailing whitespace: user content is the trimmed submit text and
\* assistant content is the trimmed reply.
C30_MessagesWellFormed ==
    /\ [](\A k \in 1..Len(messages) :
             /\ messages[k].role \in {"user", "assistant"}
             /\ messages[k].content # <<>>
             /\ messages[k].content[1] \notin Whitespace
             /\ messages[k].content[Len(messages[k].content)] \notin Whitespace)
    /\ [][/\ \A raw \in RawPrompts :
                (messages' # messages /\ Submits(raw)) =>
                   IsTrimOf(messages'[Len(messages')].content, raw)
          /\ \A i \in 1..Len(inflight), o \in Outcomes :
                (messages' # messages /\ resume(i, o)) =>
                   /\ o.reply.type = "string"
                   /\ IsTrimOf(messages'[Len(messages')].content, o.reply.text)]_vars

C30_Witness ==
    /\ lastOp = "replied"
    /\ Len(messages) = 3
    /\ messages[2] = newMessage("user", <<"a">>, 0, 1)
    /\ messages[3] = newMessage("assistant", <<"a", "a">>, 1, 0)

\* C31: the conversation is append-only: after any step the previous
\* conversation is a prefix of the new one, so no operation removes, reorders
\* or alters an existing message, and the conversation grows by at most one
\* message per step.
C31_AppendOnly ==
    [][/\ Len(messages') \in {Len(messages), Len(messages) + 1}
       /\ \A k \in 1..Len(messages) : messages'[k] = messages[k]]_vars

\* a user message and a reply appended to the greeting, one at a time
C31_Witness ==
    /\ Len(messages) = 3
    /\ messages[1].content = GREETING
    /\ messages[2].content = <<"a", "a">>
    /\ messages[3].role = "assistant"
    /\ clock = 1
    /\ draft = <<" ">>

\* C32: the status is sending if and only if a proxy request issued by this
\* client is still unresolved.
C32_SendingIffInFlight ==
    /\ status = "sending" <=> inflight # <<>>
    /\ status \in {"idle", "error"} <=> inflight = <<>>

C32_Witness ==
    /\ status = "sending"
    /\ Len(inflight) = 1
    /\ Len(messages) = 2
    /\ lastOp = "rejected"

\* C33: every accepted submit eventually leaves the sending status: provided
\* the proxy call resolves, the status eventually becomes idle or error, and
\* then a new submit is accepted again.
C33_SendingEventuallyEnds ==
    /\ (status = "sending") ~> (status \in {"idle", "error"})
    /\ [](status \in {"idle", "error"} =>
             \A raw \in RawPrompts : ~Blank(raw) => ~returnsEarly(trim(raw), isLoading))

C33_Witness ==
    /\ lastOp = "accepted"
    /\ status = "sending"
    /\ Len(messages) = 3
    /\ messages[3].role = "user"
    /\ messages[2].role = "user"
    /\ inflight # <<>>

\* the number of messages of a role after the greeting
CountOf(role) == Cardinality({k \in 2..Len(messages) : messages[k].role = role})

\* C36: each assistant message other than the greeting is immediately
\* preceded by a user message, and the assistant messages other than the
\* greeting are never more than the user messages.
C36_RepliesFollowPrompts ==
    /\ \A k \in 2..Len(messages) :
          messages[k].role = "assistant" => messages[k - 1].role = "user"
    /\ CountOf("assistant") <= CountOf("user")

\* a reply to the second of two prompts, the first of which had failed
C36_Witness ==
    /\ Len(messages) = 4
    /\ messages[2].role = "user"
    /\ messages[3].role = "user"
    /\ messages[4].role = "assistant"
    /\ lastOp = "replied"

\* C37: a user message whose submission failed stays in the conversation:
\* while the error is shown it is the last message, and a submit accepted
\* afterwards leaves it in its place, puts the new user message after it and
\* sends it again, at the same place, in the new request.
C37_FailedMessageStays ==
    /\ [](status = "error" => /\ Len(messages) >= 2
                              /\ messages[Len(messages)].role = "user")
    /\ [][(status = "error" /\ lastOp' = "accepted") =>
             LET n == Len(messages)
                 request == inflight'[Len(inflight')]
             IN /\ Len(messages') = n + 1
                /\ messages'[n] = messages[n]
                /\ messages'[n + 1].role = "user"
                /\ Len(request) = n + 1
                /\ request[n].role = "user"
                /\ request[n].content = messages[n].content
                /\ request[n + 1].content = messages'[n + 1].content]_vars

\* the failed prompt "a" is sent again, ahead of the starter prompt submitted next
C37_Witness ==
    /\ lastOp = "accepted"
    /\ error = NULL
    /\ Len(messages) = 3
    /\ messages[2].role = "user"
    /\ messages[2].content = <<"a">>
    /\ messages[3].content \in starterPrompts
    /\ Len(inflight) = 1
    /\ inflight[1][2].content = <<"a">>
    /\ clock = 1

----------------------------------------------------------------------------
(* Further properties of the proxy *)

\* the invocation at hand has returned an error payload
ErrorOutcome == response.kind = "payload" /\ response.status \in {400, 500, 502}

\* C27: each proxy invocation calls the provider at most once, and once an
\* invocation has reached an error outcome no later stage runs: no provider
\* call after a validation or configuration error, no normalization after a
\* provider failure.
C27_ErrorOutcomeIsTerminal ==
    /\ [](/\ Len(calls) <= 1
          /\ ErrorOutcome =>
                /\ pc = "done"
                /\ response.reply = <<>>
                /\ response.status \in {400, 500} => calls = <<>>
                /\ response.status = 500 => safeMessages = <<>>)
    /\ [][ErrorOutcome =>
             \/ UNCHANGED <<response, calls, safeMessages, cur>>
             \/ /\ requests # <<>>
                /\ cur' = Head(requests)
                /\ requests' = Tail(requests)
                /\ calls' = <<>>]_allvars

\* the second invocation of a process that reads the fallback file, ended by
\* a validation error
C27_Witness ==
    /\ pc = "done"
    /\ requests = <<>>
    /\ fileReads = 2
    /\ response = Payload(400, "Provide at least one valid message.", <<>>)
    /\ calls = <<>>
    /\ cur.provider = OkProvider

\* C38: when the body of the provider's response cannot be parsed, the proxy
\* returns the 502 unable-to-reach-provider error whatever the status of the
\* provider's response was.
C38_UnparsableReplyIs502 ==
    (pc = "done" /\ cur.provider.kind = "jsonRejects") =>
        /\ response.kind = "payload"
        /\ response.status = 502
        /\ response.error = "Unable to reach OpenRouter. Please try again."
        /\ response.reply = <<>>
        /\ Len(calls) = 1

\* an unparsable body under a non-success status
C38_Witness ==
    /\ pc = "done"
    /\ cur.provider.kind = "jsonRejects"
    /\ ~cur.provider.data.ok
    /\ response.status = 502
    /\ response.error # "OpenRouter request failed."

\* C39: a provider response with a success status and no choices, no message
\* in the first choice, or a content there that is neither a string nor a
\* sequence yields the 502 empty-reply error and never a success payload; the
\* outcome is that of the first choice, whatever the later choices are.
C39_NoContentIsEmptyReply ==
    Answered =>
        LET choices == cur.provider.data.choices IN
        /\ (choices = <<>> \/ choices[1].type \notin {"string", "array"}) =>
              /\ response = EmptyReply
              /\ response.status # 200
        /\ (choices # <<>> /\ choices[1].type = "string") =>
              IsTrimOf(Normalized, choices[1].text)
        /\ response.status = 200 =>
              /\ choices # <<>>
              /\ choices[1].type \in {"string", "array"}

\* a first choice without a message, followed by a choice that carries a text
C39_Witness ==
    /\ Answered
    /\ Len(cur.provider.data.choices) = 2
    /\ cur.provider.data.choices[1].type = "undefined"
    /\ cur.provider.data.choices[2].text = <<"a", "a">>
    /\ response = EmptyReply

----------------------------------------------------------------------------
(* Properties of the client when its view is torn down *)

----------------------------------------------------------------------------
(* Properties of client and proxy together *)

\* the proxy has taken up the request that the client is waiting for
Handling ==
    /\ isLoading
    /\ inflight # <<>>
    /\ cur.body.kind = "list"
    /\ Len(cur.body.messages) = Len(messages)

\* C34: end to end, the user message just submitted is the last entry of the
\* message list sent to the provider, whatever the length of the
\* conversation: the projection on the client, the filter and the truncation
\* to the last 12 on the proxy neither drop nor displace it.
C34_NewestMessageSentLast ==
    (Handling /\ pc \in {"calling", "done"} /\ apiKey.type = "string") =>
        LET n == Len(messages) IN
        /\ messages[n].role = "user"
        /\ Len(calls) = 1
        /\ Len(calls[1].messages) = 1 + Min(n, MAX_MESSAGES)
        /\ LET sent == calls[1].messages IN
           /\ sent[Len(sent)].role = "user"
           /\ sent[Len(sent)].content.type = "string"
           /\ sent[Len(sent)].content.text = messages[n].content
           /\ \A k \in 2..Len(sent) :
                 /\ sent[k].role = messages[n - Len(sent) + k].role
                 /\ sent[k].content.text = messages[n - Len(sent) + k].content

\* a prompt submitted on a conversation of thirteen messages, the greeting
\* and the first prompt being cut off
C34_Witness ==
    /\ Handling
    /\ pc = "calling"
    /\ Len(messages) = 14
    /\ messages[14].content = <<"How does Adrian approach modernization on Azure?">>
    /\ Len(calls[1].messages) = 13
    /\ calls[1].messages[13].content.text = messages[14].content
    /\ calls[1].messages[2].content.text = messages[3].content

\* C35: every request issued by the client passes the proxy's validation: no
\* entry is dropped by the filter and the proxy answers no such request with
\* the invalid-body or the no-valid-message error.
C35_ClientRequestsAreValid ==
    /\ \A i \in 1..Len(requests) :
          /\ requests[i].body.kind = "list"
          /\ SurvivorPlaces(requests[i].body.messages) = 1..Len(requests[i].body.messages)
    /\ Handling =>
          /\ SurvivorPlaces(cur.body.messages) = 1..Len(messages)
          /\ pc \in {"calling", "done"} /\ apiKey.type = "string" =>
                Len(safeMessages) = Min(Len(messages), MAX_MESSAGES)
          /\ pc = "done" =>
                /\ response.kind = "payload"
                /\ response.status # 400
                /\ response.error \notin {"Invalid JSON body.", "Provide at least one valid message."}

\* the proxy has answered a request of fourteen messages with a reply
C35_Witness ==
    /\ Handling
    /\ pc = "done"
    /\ Len(cur.body.messages) = 14
    /\ Len(safeMessages) = 12
    /\ response.status = 200
    /\ cur.body.messages[1].content = Text(GREETING)

====
